---- MODULE Spec2Model ----
(***************************************************************************)
(* Model of erowid_scraper.py: the crawl controller (main), the checkpoint *)
(* store (ProgressTracker) and the listing / detail readers, run against a *)
(* fixed site.  One action is one step of main's control flow; a process   *)
(* can be killed between any two steps and main can be started again.      *)
(***************************************************************************)
EXTENDS Integers, Sequences, FiniteSets, TLC

\* ------------------------------------------------------------------ bounds
\* How many failures (failed fetches, failed checkpoint writes, kills of the
\* process) the environment injects in one behaviour.  main can be started
\* any number of times.
MaxFaults == 1
\* The per-page row caps main is started with: 0 (no cap) .. MaxLimit.
MaxLimit == 1
\* The most <tr> rows a dose chart given to parse_detail has.
MaxDoseRows == 11
\* The tracker's methods are called with page numbers 1..MaxPageNum,
\* experience counts 0..MaxCount and experience ids 1..MaxId.
MaxPageNum == 1
MaxCount == 2
MaxId == 1

\* ------------------------------------------------------------- the source
\* Python's None.
NULL == -1

\* Python's None where the other values are strings.
None == "None"

Digits == <<"0", "1", "2", "3", "4", "5", "6", "7", "8", "9">>

\* str(n), f"{n}" for n >= 0.
RECURSIVE str(_)
str(n) ==
    IF n < 10 THEN Digits[n + 1]
    ELSE str(n \div 10) \o Digits[(n % 10) + 1]

\* The substance ids of main's listing_urls, in order.
listing_urls == <<39, 2, 8>>

Row(t, cells, link, href) ==
    [title |-> t, cells |-> cells, link |-> link, href |-> href]

\* The site: for every substance id its listing pages, each the <tr> rows of
\* the exp-list-table.  cells are the summary cells a row has besides the
\* title cell; link says whether the title cell holds an <a href>.
Site ==
    (39 :> << << Row("a", {"experience_rating", "author"}, TRUE, "a"),
                 Row("b", {"author"}, TRUE, "b"),
                 Row("c", {"experience_rating", "author"}, TRUE, "c") >>,
              << >> >>)
    @@ (2 :> << << Row("d", {"author"}, FALSE, "d"),
                   Row("a", {"experience_rating"}, TRUE, "a") >>,
                << Row("f", {"experience_rating", "author"}, TRUE, "f"),
                   Row("e", {"author"}, TRUE, "e") >>,
                << Row("g", {"author"}, TRUE, "g") >> >>)
    @@ (8 :> << << Row("h", {}, TRUE, "h") >> >>)

\* The td classes parse_detail reads in a row of the dose chart.
DoseCellClasses ==
    {"dosechart-substance", "dosechart-amount", "dosechart-method"}

\* The n-th <tr> of a dose chart, holding a td of each class in cells.
Tr(n, cells) == [n |-> n, cells |-> cells]

\* A dose chart of n <tr> rows with all three cells.
FullRows(n) == [i \in 1..n |-> Tr(i, DoseCellClasses)]

\* A detail document: how reading it ends (kind), the digits of its
\* footdata-expid cell, whether it has a table.dosechart and that table's
\* <tr> rows.
Document(kind, id, dosechart, dose_rows) ==
    [kind |-> kind, id |-> id, dosechart |-> dosechart,
     dose_rows |-> dose_rows]

\* What a detail page does to parse_detail once fetched: "full" parses to
\* the end, "early" raises inside parse_detail's try after the dose chart
\* and the body weight, "unreachable" makes get_soup return None every
\* time, "raises" lets an exception escape to main's handler.
DetailPage ==
    [h \in {"a", "b", "c", "d", "e", "f", "g", "h"} |->
        CASE h = "a" -> Document("full", 1, TRUE, FullRows(2))
          [] h = "b" -> Document("full", 2, FALSE, <<>>)
          [] h = "c" -> Document("unreachable", NULL, FALSE, <<>>)
          [] h = "e" -> Document("early", NULL, TRUE,
                                 <<Tr(1, {"dosechart-substance"})>>)
          [] h = "f" -> Document("full", 3, TRUE, FullRows(11))
          [] h = "g" -> Document("raises", NULL, FALSE, <<>>)
          [] h = "h" -> Document("full", 0, TRUE,
                                 <<Tr(1, {}), Tr(2, DoseCellClasses)>>)
          [] OTHER   -> Document("full", NULL, FALSE, <<>>)]

\* ---------------------------------------------------------------- helpers
Contains(s, x) == \E i \in 1..Len(s) : s[i] = x

NoDuplicates(s) == \A i, j \in 1..Len(s) : s[i] = s[j] => i = j

Range(s) == {s[i] : i \in 1..Len(s)}

\* experiences[:n]
Prefix(s, n) == SubSeq(s, 1, IF n < Len(s) THEN n ELSE Len(s))

\* f"{substance_id}_page_{page_num}": one string per (substance id, page).
PageId(sid, n) == <<sid, n>>

\* ------------------------------------------------------- ProgressTracker
EmptyProgress ==
    [completed_pages |-> <<>>,
     completed_experiences |-> <<>>,
     total_scraped |-> 0,
     substance_progress |-> <<>>]

NoFile == [state |-> "absent", data |-> EmptyProgress]

\* os.path.exists, then json.load; any failure falls through to the empty
\* structure.
load_progress(file) ==
    IF file.state = "json" THEN file.data ELSE EmptyProgress

\* How one call of save_progress can end.
SaveOutcomes == {"ok", "open_error", "write_error"}

\* open(progress_file, 'w') truncates, json.dump writes, the with block
\* closes.  "ok": all of it; "open_error": open raises, the file is as it
\* was; "write_error": the write raises after the truncation.
save_progress(pd, file, outcome) ==
    CASE outcome = "ok" -> [state |-> "json", data |-> pd]
      [] outcome = "open_error" -> file
      [] OTHER -> [state |-> "truncated", data |-> EmptyProgress]

\* A variant that builds the page id of the following page.
is_page_completed_next_page(pd, sid, n) ==
    Contains(pd.completed_pages, PageId(sid, n + 1))

is_page_completed(pd, sid, n) == Contains(pd.completed_pages, PageId(sid, n))

SubstanceEntry(pd, sid) ==
    IF sid \in DOMAIN pd.substance_progress
    THEN pd.substance_progress[sid]
    ELSE [completed_pages |-> 0, experiences_scraped |-> 0]

\* A variant that counts one experience per page for the substance.
MarkInMemoryCountsPages(pd, sid, n, count) ==
         [pd EXCEPT
            !.completed_pages = Append(@, PageId(sid, n)),
            !.total_scraped = @ + count,
            !.substance_progress =
                (sid :> [completed_pages |->
                            SubstanceEntry(pd, sid).completed_pages + 1,
                         experiences_scraped |->
                            SubstanceEntry(pd, sid).experiences_scraped + 1])
                @@ @]

\* The body of mark_page_completed's if, before the save.
MarkInMemory(pd, sid, n, count) ==
         [pd EXCEPT
            !.completed_pages = Append(@, PageId(sid, n)),
            !.total_scraped = @ + count,
            !.substance_progress =
                (sid :> [completed_pages |->
                            SubstanceEntry(pd, sid).completed_pages + 1,
                         experiences_scraped |->
                            SubstanceEntry(pd, sid).experiences_scraped + count])
                @@ @]

\* A variant without the membership test.
mark_page_completed_unguarded(pd, file, sid, n, count, outcome) ==
    [data |-> MarkInMemory(pd, sid, n, count),
     file |-> save_progress(MarkInMemory(pd, sid, n, count), file, outcome)]

\* A variant that undoes the update when the save fails.
mark_page_completed_rollback(pd, file, sid, n, count, outcome) ==
    IF is_page_completed(pd, sid, n)
    THEN [data |-> pd, file |-> file]
    ELSE [data |-> IF outcome = "ok" THEN MarkInMemory(pd, sid, n, count)
                   ELSE pd,
          file |-> save_progress(MarkInMemory(pd, sid, n, count), file,
                                 outcome)]

\* mark_page_completed on the tracker (progress_data and the file behind it):
\* nothing at all for a page id already listed, else the update and the
\* save_progress that ends it, whose failure is logged and swallowed.
mark_page_completed(pd, file, sid, n, count, outcome) ==
    IF is_page_completed(pd, sid, n)
    THEN [data |-> pd, file |-> file]
    ELSE [data |-> MarkInMemory(pd, sid, n, count),
          file |-> save_progress(MarkInMemory(pd, sid, n, count), file,
                                 outcome)]

\* A variant that saves after every registered id.
add_experience_file_saving(pd, file) == [state |-> "json", data |-> pd]

\* add_experience never calls save_progress: the file is as it was.
add_experience_file(pd, file) == file

\* A variant without the membership test.
add_experience_unguarded(pd, id) ==
    [pd EXCEPT !.completed_experiences = Append(@, id)]

\* A variant that also counts the experience.
add_experience_counting(pd, id) ==
    IF Contains(pd.completed_experiences, id)
    THEN pd
    ELSE [pd EXCEPT !.completed_experiences = Append(@, id),
                    !.total_scraped = @ + 1]

add_experience(pd, id) ==
    IF Contains(pd.completed_experiences, id)
    THEN pd
    ELSE [pd EXCEPT !.completed_experiences = Append(@, id)]

\* ---------------------------------------------------------------- readers
\* The pagination maximum of the listing, 1 when the fetch fails or the
\* listing shows no page links.
get_total_pages(sid, fetched) ==
    IF fetched /\ Len(Site[sid]) > 1 THEN Len(Site[sid]) ELSE 1

\* The rows a listing URL serves: pages past the last one are empty.
ListingRows(sid, n) ==
    IF n <= Len(Site[sid]) THEN Site[sid][n] ELSE <<>>

ExpData(row) ==
    [title |-> row.title, keys |-> row.cells \cup {"title"},
     detail_url |-> row.href]

\* A variant that keeps the rows without a detail_url.
RECURSIVE ExpListKeepingAll(_)
ExpListKeepingAll(rows) ==
    IF rows = <<>> THEN <<>>
    ELSE <<ExpData(Head(rows))>> \o ExpListKeepingAll(Tail(rows))

RECURSIVE ExpList(_)
ExpList(rows) ==
    IF rows = <<>> THEN <<>>
    ELSE IF Head(rows).link
         THEN <<ExpData(Head(rows))>> \o ExpList(Tail(rows))
         ELSE ExpList(Tail(rows))

\* Only the rows with a detail_url are kept; a failed fetch gives [].
parse_listing(rows, fetched) == IF fetched THEN ExpList(rows) ELSE <<>>

\* A variant without the early continue.
NothingFoundIgnored(found) == FALSE

\* if not experiences
NothingFound(found) == found = <<>>

\* cell.get_text(strip=True): every cell of the model has its own text.
get_text(row, class) == class \o ":" \o str(row.n)

\* A variant that takes every <tr>, header rows included.
dose_data_rows_unfiltered(dose_rows) == dose_rows

\* The rows with a td.dosechart-substance, in document order.
dose_data_rows(dose_rows) ==
    SelectSeq(dose_rows, LAMBDA row : "dosechart-substance" \in row.cells)

\* cell.get_text(strip=True) if cell else None
CellOrNone(row, class) ==
    IF class \in row.cells THEN get_text(row, class) ELSE None

NoneSlot == [substance |-> None, dose |-> None, method |-> None]

\* One pass of for i in range(1, 11).
DoseSlot(i, data_rows) ==
    IF i <= Len(data_rows)
    THEN [substance |-> CellOrNone(data_rows[i], "dosechart-substance"),
          dose |-> CellOrNone(data_rows[i], "dosechart-amount"),
          method |-> CellOrNone(data_rows[i], "dosechart-method")]
    ELSE NoneSlot

\* for i in range(1, 11)
DoseSlots(data_rows) == [i \in 1..10 |-> DoseSlot(i, data_rows)]

\* The dose chart part of parse_detail: substance_i, dose_i, method_i for
\* i = 1..10.
dose_chart(soup) ==
    IF soup.dosechart
    THEN DoseSlots(dose_data_rows(soup.dose_rows))
    ELSE [i \in 1..10 |-> NoneSlot]

\* parse_detail on the document behind detail_url.
parse_document(soup, fetched) ==
    CASE fetched /\ soup.kind = "full" ->
            [detail |-> "full", id |-> soup.id, doses |-> dose_chart(soup)]
      [] fetched /\ soup.kind = "early" ->
            [detail |-> "early", id |-> NULL, doses |-> dose_chart(soup)]
      [] OTHER -> [detail |-> "none", id |-> NULL, doses |-> <<>>]

\* The details dict: {} when the page cannot be fetched, the keys set up to
\* the point an exception is swallowed, all keys otherwise.
parse_detail(href, fetched) == parse_document(DetailPage[href], fetched)

\* {**exp, **detail_data} without detail_url, with sid.
MergeExp(exp, details, sid) ==
    [title |-> exp.title, keys |-> exp.keys, detail |-> details.detail,
     id |-> details.id, doses |-> details.doses, sid |-> sid]

\* exp.copy() without detail_url, with sid.
FallbackExp(exp, sid) ==
    [title |-> exp.title, keys |-> exp.keys, detail |-> "none",
     id |-> NULL, doses |-> <<>>, sid |-> sid]

\* The record main appends for one listing entry.
ResolveExp(exp, sid, fetched) ==
    IF fetched /\ DetailPage[exp.detail_url].kind = "raises"
    THEN FallbackExp(exp, sid)
    ELSE MergeExp(exp, parse_detail(exp.detail_url, fetched), sid)

\* The keys parse_detail sets for the dose chart.
DoseKeys ==
    {"substance_1", "dose_1", "method_1", "substance_2", "dose_2", "method_2",
     "substance_3", "dose_3", "method_3", "substance_4", "dose_4", "method_4",
     "substance_5", "dose_5", "method_5", "substance_6", "dose_6", "method_6",
     "substance_7", "dose_7", "method_7", "substance_8", "dose_8", "method_8",
     "substance_9", "dose_9", "method_9",
     "substance_10", "dose_10", "method_10"}

WeightKeys == {"weight_val", "weight_scale"}

FootKeys == {"id", "gender", "age_experience", "date_published",
             "number_views", "date_experience"}

\* The keys parse_detail has set when it reaches its end.
FullKeys == DoseKeys \cup WeightKeys \cup {"text"} \cup FootKeys

\* The keys parse_detail has set when it stops after the body weight.
EarlyKeys == DoseKeys \cup WeightKeys

\* The keys of the details dict parse_detail returns.
DetailKeys(detail) ==
    CASE detail = "full" -> FullKeys
      [] detail = "early" -> EarlyKeys
      [] OTHER -> {}

\* The keys of an accumulated record.
Keys(full_exp) == full_exp.keys \cup DetailKeys(full_exp.detail) \cup {"sid"}

\* full_exp.get('id') is truthy.
HasId(full_exp) == full_exp.id # NULL /\ full_exp.id # 0

\* ------------------------------------------------------ the output table
\* main's columns before the dose columns.
ScalarColumns ==
    <<"title", "author", "date_experience", "date_published", "gender",
      "age_experience", "experience_rating", "weight_val", "weight_scale",
      "text", "id", "number_views", "sid">>

\* for i in range(1, 11): columns.extend([substance_i, dose_i, method_i]),
\* from pass i on.
RECURSIVE DoseColumns(_)
DoseColumns(i) ==
    IF i > 10 THEN <<>>
    ELSE <<"substance_" \o str(i), "dose_" \o str(i), "method_" \o str(i)>>
         \o DoseColumns(i + 1)

columns == ScalarColumns \o DoseColumns(1)

\* The order in which parse_listing, parse_detail and main set the keys of
\* a record.
InsertionOrder ==
    <<"experience_rating", "author", "title">> \o DoseColumns(1)
    \o <<"weight_val", "weight_scale", "text", "id", "gender",
         "age_experience", "date_published", "number_views",
         "date_experience", "sid">>

\* key in full_exp
HasKey(full_exp, key) ==
    \/ key \in full_exp.keys
    \/ key \in DetailKeys(full_exp.detail)
    \/ key = "sid"

\* The keys of a record, in dict order.
KeyList(full_exp) ==
    SelectSeq(InsertionOrder, LAMBDA k : HasKey(full_exp, k))

\* The slot and field each dose key names.
SlotOf ==
    [key \in DoseKeys |->
        CHOOSE sf \in (1..10) \X {"substance", "dose", "method"} :
            key = sf[2] \o "_" \o str(sf[1])]

\* full_exp[key] for a key the record has: a text or None.
Value(full_exp, key) ==
    CASE key = "title" -> full_exp.title
      [] key = "sid" -> str(full_exp.sid)
      [] key = "id" -> IF full_exp.id = NULL THEN None ELSE str(full_exp.id)
      [] key \in DoseKeys -> full_exp.doses[SlotOf[key][1]][SlotOf[key][2]]
      [] OTHER -> key \o " of " \o full_exp.title

\* What pandas puts where a dict lacks the column's key.
NaN == "NaN"

\* The columns of pd.DataFrame(list of dicts): the keys in the order they
\* first appear.
RECURSIVE FrameColumns(_, _)
FrameColumns(recs, seen) ==
    IF recs = <<>> THEN seen
    ELSE FrameColumns(Tail(recs),
                      seen \o SelectSeq(KeyList(Head(recs)),
                                        LAMBDA k : ~Contains(seen, k)))

\* The cells of one dict under the columns cols.
FrameRow(full_exp, cols) ==
    [j \in 1..Len(cols) |->
        IF HasKey(full_exp, cols[j]) THEN Value(full_exp, cols[j]) ELSE NaN]

\* A frame is its column names and, row by row, the cells under them.
Frame(cols, recs) ==
    [columns |-> cols,
     rows |-> [i \in 1..Len(recs) |-> FrameRow(recs[i], cols)]]

\* pd.DataFrame(all_experiences)
DataFrame(recs) == Frame(FrameColumns(recs, <<>>), recs)

\* df[col] = None for every col of missing.
AddColumns(df, missing) ==
    [columns |-> df.columns \o missing,
     rows |-> [i \in 1..Len(df.rows) |->
                 df.rows[i] \o [j \in 1..Len(missing) |-> None]]]

\* for col in columns: if col not in df.columns: df[col] = None
EnsureColumns(df) ==
    AddColumns(df, SelectSeq(columns, LAMBDA c : ~Contains(df.columns, c)))

\* The position of a column name among the columns of a frame.
get_loc(cols, name) == CHOOSE j \in 1..Len(cols) : cols[j] = name

\* The cells of one row under the columns at the positions at.
TakeCells(cells, at) == [j \in 1..Len(at) |-> cells[at[j]]]

\* The rows of a frame with the cells at the positions at.
TakeColumns(frame_rows, at) ==
    [i \in 1..Len(frame_rows) |-> TakeCells(frame_rows[i], at)]

\* A variant that leaves the columns in the frame's order.
ReorderSkipped(df) == df

\* df = df[columns]
Reorder(df) ==
    [columns |-> columns,
     rows |-> TakeColumns(df.rows,
                          [j \in 1..Len(columns) |->
                              get_loc(df.columns, columns[j])])]

\* to_csv's default na_rep.
na_rep == ""

\* One line of the file: a missing value is written as na_rep.
CsvLine(cells) ==
    [j \in 1..Len(cells) |->
        IF cells[j] \in {NaN, None} THEN na_rep ELSE cells[j]]

\* A variant that opens the file in append mode.
to_csv_appending(old, df) ==
    [header |-> df.columns,
     table |-> old.table \o [i \in 1..Len(df.rows) |-> CsvLine(df.rows[i])]]

\* df.to_csv(output_file, index=False): the header and one line per row,
\* written over what the file held.
to_csv(old, df) ==
    [header |-> df.columns,
     table |-> [i \in 1..Len(df.rows) |-> CsvLine(df.rows[i])]]

\* ------------------------------------------------------------------ state
VARIABLES
    progress_file,      \* scraping_progress.json on disk
    progress_data,      \* ProgressTracker.progress_data of the running main
    output_file,        \* erowid_experiences.csv on disk
    pc,                 \* where main is: idle, category, page, row, done, dead
    faults,             \* failures injected so far
    limit_per_page,     \* main's argument, 0 for None
    ci,                 \* index of base_listing_url in listing_urls
    total_pages,
    page_num,
    rows,               \* the <tr> rows of the listing just read
    experiences,
    ri,                 \* index of exp in experiences
    page_experiences,
    all_experiences,
    start_completed,    \* the page ids completed when this run began
    requests,           \* the pagination, listing and detail reads of this run
    empty_reads,        \* the page ids whose listing read gave [] in this run
    save_log,           \* what save_progress logged in the step just taken
    committed,          \* page ids a successful save has written since the
                        \* file was last cleared
    resumable,          \* committed, as it was when this run began
    soup,               \* the document a call of parse_detail is given
    details             \* what that call returned

vars == <<progress_file, progress_data, output_file, pc, faults,
          limit_per_page, ci, total_pages, page_num, rows, experiences, ri,
          page_experiences, all_experiences, start_completed, requests,
          empty_reads, save_log, committed, resumable, soup, details>>

\* parse_detail not yet called.
NotCalled == [detail |-> "pending", id |-> NULL, doses |-> <<>>]

\* rows: the records the table was written from.
NoOutput ==
    [state |-> "absent", rows |-> <<>>, header |-> <<>>, table |-> <<>>]

\* The output file after to_csv wrote csv from the records recs.
Written(recs, csv) ==
    [state |-> "written", rows |-> recs, header |-> csv.header,
     table |-> csv.table]

Running == pc \in {"category", "page", "row"}

substance_id == listing_urls[ci]

\* main's locals, the tracker and the two files before main is first called.
CrawlInit ==
    /\ progress_file = NoFile
    /\ progress_data = EmptyProgress
    /\ output_file = NoOutput
    /\ pc = "idle"
    /\ faults = 0
    /\ limit_per_page = 0
    /\ ci = 1
    /\ total_pages = 1
    /\ page_num = 1
    /\ rows = <<>>
    /\ experiences = <<>>
    /\ ri = 1
    /\ page_experiences = <<>>
    /\ all_experiences = <<>>
    /\ start_completed = {}
    /\ requests = {}
    /\ empty_reads = {}
    /\ save_log = "none"
    /\ committed = {}
    /\ resumable = {}

Init ==
    /\ CrawlInit
    /\ soup = Document("full", NULL, FALSE, <<>>)
    /\ details = NotCalled

\* ---------------------------------------------------------------- actions
\* main up to the category loop: a fresh accumulator, ProgressTracker()
\* loading the file, clear_progress removing it.
StartRun(limit, clear) ==
    /\ pc \in {"idle", "done", "dead"}
    /\ limit_per_page' = limit
    /\ progress_file' = IF clear THEN NoFile ELSE progress_file
    /\ progress_data' = load_progress(progress_file')
    /\ all_experiences' = <<>>
    /\ start_completed' = Range(progress_data'.completed_pages)
    /\ committed' = IF clear THEN {} ELSE committed
    /\ resumable' = committed'
    /\ requests' = {}
    /\ empty_reads' = {}
    /\ save_log' = "none"
    /\ ci' = 1
    /\ total_pages' = 1
    /\ page_num' = 1
    /\ rows' = <<>>
    /\ experiences' = <<>>
    /\ ri' = 1
    /\ page_experiences' = <<>>
    /\ pc' = "category"
    /\ UNCHANGED <<output_file, faults, soup, details>>

\* for base_listing_url in listing_urls: get_total_pages.
GetTotalPages(fetched) ==
    /\ pc = "category"
    /\ ci <= Len(listing_urls)
    /\ fetched \/ faults < MaxFaults
    /\ faults' = IF fetched THEN faults ELSE faults + 1
    /\ total_pages' = get_total_pages(substance_id, fetched)
    /\ page_num' = 1
    /\ pc' = "page"
    /\ save_log' = "none"
    /\ requests' = requests \cup
          {<<"pagination", substance_id, 0, "",
             IF fetched THEN "ok" ELSE "failed">>}
    /\ UNCHANGED <<progress_file, progress_data, output_file, limit_per_page,
                   ci, rows, experiences, ri, page_experiences,
                   all_experiences, start_completed, empty_reads, committed,
                   resumable, soup, details>>

\* range(1, total_pages + 1) is exhausted.
NextCategory ==
    /\ pc = "page"
    /\ page_num > total_pages
    /\ ci' = ci + 1
    /\ pc' = "category"
    /\ save_log' = "none"
    /\ UNCHANGED <<progress_file, progress_data, output_file, faults,
                   limit_per_page, total_pages, page_num, rows, experiences,
                   ri, page_experiences, all_experiences, start_completed,
                   requests, empty_reads, committed, resumable, soup,
                   details>>

\* if progress.is_page_completed(...): continue
SkipCompletedPage ==
    /\ pc = "page"
    /\ page_num <= total_pages
    /\ is_page_completed(progress_data, substance_id, page_num)
    /\ page_num' = page_num + 1
    /\ save_log' = "none"
    /\ UNCHANGED <<progress_file, progress_data, output_file, pc, faults,
                   limit_per_page, ci, total_pages, rows, experiences, ri,
                   page_experiences, all_experiences, start_completed,
                   requests, empty_reads, committed, resumable, soup,
                   details>>

\* parse_listing, then: nothing found, the test cap's break, or the row loop.
ReadListing(fetched) ==
    /\ pc = "page"
    /\ page_num <= total_pages
    /\ ~is_page_completed(progress_data, substance_id, page_num)
    /\ fetched \/ faults < MaxFaults
    /\ faults' = IF fetched THEN faults ELSE faults + 1
    /\ requests' = requests \cup
          {<<"listing", substance_id, page_num, "",
             IF fetched THEN "ok" ELSE "failed">>}
    /\ save_log' = "none"
    /\ LET served == IF fetched THEN ListingRows(substance_id, page_num)
                     ELSE <<>>
           found == parse_listing(served, fetched)
       IN  /\ empty_reads' = IF found = <<>>
                             THEN empty_reads
                                  \cup {PageId(substance_id, page_num)}
                             ELSE empty_reads
           /\ IF NothingFound(found)
              THEN /\ page_num' = page_num + 1
                   /\ UNCHANGED <<pc, ci, rows, experiences, ri,
                                  page_experiences>>
              ELSE IF limit_per_page # 0 /\ page_num > 2
              THEN /\ ci' = ci + 1
                   /\ pc' = "category"
                   /\ UNCHANGED <<page_num, rows, experiences, ri,
                                  page_experiences>>
              ELSE /\ rows' = served
                   /\ experiences' = IF limit_per_page # 0
                                     THEN Prefix(found, limit_per_page)
                                     ELSE found
                   /\ ri' = 1
                   /\ page_experiences' = <<>>
                   /\ pc' = "row"
                   /\ UNCHANGED <<ci, page_num>>
    /\ UNCHANGED <<progress_file, progress_data, output_file, limit_per_page,
                   total_pages, all_experiences, start_completed, committed,
                   resumable, soup, details>>

\* One iteration of for exp in experiences.
ProcessRow(fetched) ==
    /\ pc = "row"
    /\ ri <= Len(experiences)
    /\ fetched \/ faults < MaxFaults
    /\ faults' = IF fetched THEN faults ELSE faults + 1
    /\ LET exp == experiences[ri]
           full_exp == ResolveExp(exp, substance_id, fetched)
           raised == fetched /\ DetailPage[exp.detail_url].kind = "raises"
           registered == ~raised /\ HasId(full_exp)
       IN  /\ requests' = requests \cup
                 {<<"detail", substance_id, page_num, exp.detail_url,
                    IF full_exp.detail = "none" THEN "failed" ELSE "ok">>}
           /\ progress_data' = IF registered
                               THEN add_experience(progress_data, full_exp.id)
                               ELSE progress_data
           /\ progress_file' = IF registered
                               THEN add_experience_file(progress_data',
                                                        progress_file)
                               ELSE progress_file
           /\ all_experiences' = Append(all_experiences, full_exp)
           /\ page_experiences' = Append(page_experiences, full_exp)
    /\ ri' = ri + 1
    /\ save_log' = "none"
    /\ UNCHANGED <<output_file, pc, limit_per_page, ci, total_pages,
                   page_num, rows, experiences, start_completed, empty_reads,
                   committed, resumable, soup, details>>

\* progress.mark_page_completed(substance_id, page_num, len(page_experiences))
\* with the save_progress it ends in.
MarkPageCompleted(outcome) ==
    /\ pc = "row"
    /\ ri > Len(experiences)
    /\ outcome = "ok" \/ faults < MaxFaults
    /\ faults' = IF outcome = "ok" THEN faults ELSE faults + 1
    /\ LET after == mark_page_completed(progress_data, progress_file,
                                        substance_id, page_num,
                                        Len(page_experiences), outcome)
       IN  /\ progress_data' = after.data
           /\ progress_file' = after.file
    /\ save_log' = IF is_page_completed(progress_data, substance_id, page_num)
                   THEN "none"
                   ELSE IF outcome = "ok" THEN "saved" ELSE "error"
    /\ committed' = IF save_log' = "saved"
                    THEN committed \cup Range(progress_data'.completed_pages)
                    ELSE committed
    /\ page_num' = page_num + 1
    /\ pc' = "page"
    /\ UNCHANGED <<output_file, limit_per_page, ci, total_pages, rows,
                   experiences, ri, page_experiences, all_experiences,
                   start_completed, requests, empty_reads, resumable, soup,
                   details>>

\* The process is killed inside save_progress, between the truncating open
\* and the close that flushes the dump.
CrashInSave ==
    /\ pc = "row"
    /\ ri > Len(experiences)
    /\ ~is_page_completed(progress_data, substance_id, page_num)
    /\ faults < MaxFaults
    /\ faults' = faults + 1
    /\ progress_data' = MarkInMemory(progress_data, substance_id, page_num,
                                     Len(page_experiences))
    /\ progress_file' = [state |-> "truncated", data |-> EmptyProgress]
    /\ pc' = "dead"
    /\ save_log' = "none"
    /\ UNCHANGED <<output_file, limit_per_page, ci, total_pages, page_num,
                   rows, experiences, ri, page_experiences, all_experiences,
                   start_completed, requests, empty_reads, committed,
                   resumable, soup, details>>

\* The process is killed (operator interrupt) between two steps.
Crash ==
    /\ Running
    /\ faults < MaxFaults
    /\ faults' = faults + 1
    /\ pc' = "dead"
    /\ save_log' = "none"
    /\ UNCHANGED <<progress_file, progress_data, output_file, limit_per_page,
                   ci, total_pages, page_num, rows, experiences, ri,
                   page_experiences, all_experiences, start_completed,
                   requests, empty_reads, committed, resumable, soup,
                   details>>

\* After the category loop: the DataFrame is written over the output file.
WriteOutput ==
    /\ pc = "category"
    /\ ci > Len(listing_urls)
    /\ output_file' =
          Written(all_experiences,
                  to_csv(output_file,
                         Reorder(EnsureColumns(DataFrame(all_experiences)))))
    /\ pc' = "done"
    /\ save_log' = "none"
    /\ UNCHANGED <<progress_file, progress_data, faults, limit_per_page, ci,
                   total_pages, page_num, rows, experiences, ri,
                   page_experiences, all_experiences, start_completed,
                   requests, empty_reads, committed, resumable, soup,
                   details>>

Next ==
    \/ \E limit \in 0..MaxLimit, clear \in BOOLEAN : StartRun(limit, clear)
    \/ \E fetched \in BOOLEAN : GetTotalPages(fetched)
    \/ NextCategory
    \/ SkipCompletedPage
    \/ \E fetched \in BOOLEAN : ReadListing(fetched)
    \/ \E fetched \in BOOLEAN : ProcessRow(fetched)
    \/ \E outcome \in SaveOutcomes : MarkPageCompleted(outcome)
    \/ CrashInSave
    \/ Crash
    \/ WriteOutput

Spec == Init /\ [][Next]_vars

\* ------------------------------------------------ parse_detail by itself
crawl_vars == <<progress_file, progress_data, output_file, pc, faults,
                limit_per_page, ci, total_pages, page_num, rows, experiences,
                ri, page_experiences, all_experiences, start_completed,
                requests, empty_reads, save_log, committed, resumable>>

\* A dose chart of n <tr> rows, all with the three cells but row p, which
\* has the cells cp, and row q, which has the cells cq.
DrawnRows(n, p, cp, q, cq) ==
    [i \in 1..n |->
        Tr(i, IF i = p THEN cp ELSE IF i = q THEN cq ELSE DoseCellClasses)]

\* The documents parse_detail is tried on.
Documents ==
    {Document(kind, NULL, FALSE, <<>>) : kind \in {"full", "early"}}
    \cup {Document(kind, NULL, TRUE, DrawnRows(n, p, cp, q, cq)) :
            kind \in {"full", "early"}, n \in 0..MaxDoseRows,
            p \in 0..MaxDoseRows, cp \in SUBSET DoseCellClasses,
            q \in 0..MaxDoseRows, cq \in SUBSET DoseCellClasses}

InitDose ==
    /\ CrawlInit
    /\ soup \in Documents
    /\ details = NotCalled

\* One call of parse_detail; get_soup gives the document or None.
ParseDetail(fetched) ==
    /\ details = NotCalled
    /\ details' = parse_document(soup, fetched)
    /\ UNCHANGED <<crawl_vars, soup>>

NextDose == \E fetched \in BOOLEAN : ParseDetail(fetched)

SpecDose == InitDose /\ [][NextDose]_vars

\* ------------------------------------------- ProgressTracker by itself
\* The substance ids the tracker's methods are called with.
TrackerSids == {listing_urls[1], listing_urls[2]}

\* One call of mark_page_completed on a tracker made without a file.
CallMarkPageCompleted(sid, n, count, outcome) ==
    /\ LET after == mark_page_completed(progress_data, progress_file, sid, n,
                                        count, outcome)
       IN  /\ progress_data' = after.data
           /\ progress_file' = after.file
    /\ UNCHANGED <<output_file, pc, faults, limit_per_page, ci, total_pages,
                   page_num, rows, experiences, ri, page_experiences,
                   all_experiences, start_completed, requests, empty_reads,
                   save_log, committed, resumable, soup, details>>

\* One call of add_experience.
CallAddExperience(id) ==
    /\ progress_data' = add_experience(progress_data, id)
    /\ progress_file' = add_experience_file(progress_data', progress_file)
    /\ UNCHANGED <<output_file, pc, faults, limit_per_page, ci, total_pages,
                   page_num, rows, experiences, ri, page_experiences,
                   all_experiences, start_completed, requests, empty_reads,
                   save_log, committed, resumable, soup, details>>

NextTracker ==
    \/ \E sid \in TrackerSids, n \in 1..MaxPageNum, count \in 0..MaxCount,
          outcome \in SaveOutcomes :
            CallMarkPageCompleted(sid, n, count, outcome)
    \/ \E id \in 1..MaxId : CallAddExperience(id)

SpecTracker == Init /\ [][NextTracker]_vars

\* ------------------------------------------------------------ properties
CompletedPages(pd) == Range(pd.completed_pages)

ListingRequested(u) ==
    \E r \in requests : r[1] = "listing" /\ r[2] = u[1] /\ r[3] = u[2]

DetailRequests == {r \in requests : r[1] = "detail"}

DetailRequested(u) == \E r \in DetailRequests : r[2] = u[1] /\ r[3] = u[2]

\* C1: a run issues no listing read and no detail read for a page id that
\* the checkpoint it loaded lists as completed, and every record it
\* accumulates comes from a detail read of a page that was not completed.
C1_NoRequestsForCompletedPages ==
    /\ \A u \in start_completed : ~ListingRequested(u) /\ ~DetailRequested(u)
    /\ Len(all_experiences) = Cardinality(DetailRequests)

C1_Witness ==
    /\ pc = "done"
    /\ PageId(39, 1) \in start_completed
    /\ PageId(2, 2) \in start_completed
    /\ all_experiences = <<>>

\* C2 (as claimed): a page id that a save wrote to the checkpoint file
\* before this run began (the file not cleared since) is not read again by
\* this run.
C2_CommittedPagesNotReprocessed ==
    \A u \in resumable : ~ListingRequested(u) /\ ~DetailRequested(u)

\* C3: a page id whose listing read gave no records in this run is not in
\* completed_pages, in memory or in the file a later run loads.
C3_EmptyPageNotCompleted ==
    \A u \in empty_reads :
        /\ u \notin CompletedPages(progress_data)
        /\ u \notin CompletedPages(load_progress(progress_file))

C3_Witness ==
    /\ pc = "done"
    /\ PageId(39, 2) \in empty_reads
    /\ PageId(2, 1) \in empty_reads
    /\ PageId(39, 1) \in CompletedPages(progress_data)

RecordsOf(recs, sid) == SelectSeq(recs, LAMBDA r : r.sid = sid)

\* The scenario: a run without a cap, starting with nothing of substance 39
\* completed, reads page 1 of it (three rows with a link; the detail reads
\* of the first two succeed, that of the third fails), finds nothing on
\* page 2, and writes its output.
C4_Scenario ==
    /\ pc = "done"
    /\ limit_per_page = 0
    /\ \A u \in start_completed : u[1] # 39
    /\ <<"listing", 39, 1, "", "ok">> \in requests
    /\ <<"detail", 39, 1, "a", "ok">> \in requests
    /\ <<"detail", 39, 1, "b", "ok">> \in requests
    /\ <<"detail", 39, 1, "c", "failed">> \in requests
    /\ PageId(39, 2) \in empty_reads

C4_Output ==
    LET out == RecordsOf(output_file.rows, 39) IN
    /\ Len(out) = 3
    /\ DetailKeys("full") \subseteq Keys(out[1])
    /\ DetailKeys("full") \subseteq Keys(out[2])
    /\ Keys(out[3]) = out[3].keys \cup {"sid"}

\* C4 (as claimed): in the scenario the output has the 3 rows, 2 full and 1
\* with the summary fields and the category only, and the checkpoint lists
\* both pages as completed, page 2 with 0 experiences.
C4_BothPagesCompleted ==
    C4_Scenario =>
        /\ C4_Output
        /\ {PageId(39, 1), PageId(39, 2)} \subseteq CompletedPages(progress_data)
        /\ SubstanceEntry(progress_data, 39)
               = [completed_pages |-> 2, experiences_scraped |-> 3]

\* C4 (amended): in the scenario the output has the 3 rows, 2 full and 1
\* with the summary fields and the category only, and the checkpoint lists
\* page 1 as completed with 3 experiences and does not list page 2.
C4_OnlyPageOneCompleted ==
    C4_Scenario =>
        /\ C4_Output
        /\ PageId(39, 1) \in CompletedPages(progress_data)
        /\ PageId(39, 2) \notin CompletedPages(progress_data)
        /\ SubstanceEntry(progress_data, 39)
               = [completed_pages |-> 1, experiences_scraped |-> 3]

C4_Witness ==
    /\ C4_Scenario
    /\ start_completed = {}
    /\ output_file.state = "written"
    /\ Len(output_file.rows) > 3

\* mark_page_completed changes neither progress_data nor the file when the
\* page id is already listed, and no list of page ids holds one twice.
MarkedAtMostOnce ==
    /\ NoDuplicates(progress_data.completed_pages)
    /\ NoDuplicates(load_progress(progress_file).completed_pages)
    /\ \A u \in CompletedPages(progress_data) :
         \A n \in {0, 1, Len(page_experiences)}, o \in SaveOutcomes :
            mark_page_completed(progress_data, progress_file, u[1], u[2],
                                n, o)
              = [data |-> progress_data, file |-> progress_file]

\* Every entry in entries has had its detail page read in this run.
AllResolved(u, entries) ==
    \A i \in 1..Len(entries) :
        \E r \in DetailRequests :
            r[2] = u[1] /\ r[3] = u[2] /\ r[4] = entries[i].detail_url

CompletedInThisRun == CompletedPages(progress_data) \ start_completed

\* C5 (as claimed): a page id is listed at most once, marking a listed page
\* changes nothing, and a page is listed only when every summary record of
\* its listing has been resolved.
C5_CompletedAfterEveryRecord ==
    /\ MarkedAtMostOnce
    /\ \A u \in CompletedInThisRun :
         AllResolved(u, parse_listing(ListingRows(u[1], u[2]), TRUE))

\* C5 (amended): a page id is listed at most once, marking a listed page
\* changes nothing, and a page is listed only when every summary record the
\* run kept of its listing (all of them, or the first limit_per_page under
\* a cap) has been resolved.
C5_CompletedAfterEveryKeptRecord ==
    /\ MarkedAtMostOnce
    /\ \A u \in CompletedInThisRun :
         LET found == parse_listing(ListingRows(u[1], u[2]), TRUE) IN
         AllResolved(u, IF limit_per_page # 0
                        THEN Prefix(found, limit_per_page) ELSE found)

C5_Witness ==
    /\ limit_per_page = 1
    /\ PageId(39, 1) \in CompletedInThisRun
    /\ ~AllResolved(PageId(39, 1), parse_listing(ListingRows(39, 1), TRUE))
    /\ PageId(2, 1) \in start_completed

RowStep == pc = "row" /\ pc' = "row"

\* C6 (as claimed): while the rows of a page are processed no field of the
\* checkpoint state changes.
C6_NoChangeWithinPage ==
    [][RowStep => progress_data' = progress_data]_vars

\* C6 (amended): while the rows of a page are processed the checkpoint file,
\* completed_pages, total_scraped and substance_progress do not change;
\* completed_experiences changes only by the id of the row just resolved
\* being appended when it is not yet listed.
C6_OnlySeenIdsChangeWithinPage ==
    [][RowStep =>
        /\ progress_file' = progress_file
        /\ progress_data'.completed_pages = progress_data.completed_pages
        /\ progress_data'.total_scraped = progress_data.total_scraped
        /\ progress_data'.substance_progress
             = progress_data.substance_progress
        /\ LET seen == progress_data.completed_experiences
               rec == page_experiences'[Len(page_experiences')]
           IN  progress_data'.completed_experiences
                 = IF rec.detail = "full" /\ HasId(rec)
                      /\ ~Contains(seen, rec.id)
                   THEN Append(seen, rec.id) ELSE seen
      ]_vars

C6_Witness ==
    /\ pc = "row"
    /\ ri = 3
    /\ Len(experiences) = 3
    /\ progress_data.completed_pages = <<>>
    /\ progress_data.completed_experiences = <<1, 2>>
    /\ progress_data.total_scraped = 0

\* C7 (as claimed): whenever the process has been killed, the checkpoint
\* file is a complete checkpoint (never a truncated or empty one) that lists
\* every page id a save has written.
C7_FileCompleteAfterCrash ==
    pc = "dead" =>
        /\ progress_file.state # "truncated"
        /\ committed \subseteq CompletedPages(load_progress(progress_file))

\* The record ids the rows of a page can register.
IdsOfPage(u) ==
    {ResolveExp(e, u[1], TRUE).id :
        e \in {x \in Range(parse_listing(ListingRows(u[1], u[2]), TRUE)) :
                 HasId(ResolveExp(x, u[1], TRUE))}}

EntriesOfPage(u) == Len(parse_listing(ListingRows(u[1], u[2]), TRUE))

RECURSIVE EntriesOfPages(_)
EntriesOfPages(S) ==
    IF S = {} THEN 0
    ELSE LET x == CHOOSE y \in S : TRUE
         IN  EntriesOfPage(x) + EntriesOfPages(S \ {x})

MidPage == ri <= Len(experiences)

\* C8: the checkpoint file holds only what completed pages gave it: every
\* record id in it is an id of a row of a page it lists, its counters count
\* the pages it lists and no more experiences than those pages have, and
\* the page whose rows are being processed (also when the process is killed
\* there) is not in it.
C8_FileAtPageBoundary ==
    LET fd == load_progress(progress_file)
        done == CompletedPages(fd)
    IN  /\ Range(fd.completed_experiences)
             \subseteq UNION {IdsOfPage(u) : u \in done}
        /\ fd.total_scraped <= EntriesOfPages(done)
        /\ \A sid \in DOMAIN fd.substance_progress :
             LET mine == {u \in done : u[1] = sid} IN
             /\ fd.substance_progress[sid].completed_pages = Cardinality(mine)
             /\ fd.substance_progress[sid].experiences_scraped
                  <= EntriesOfPages(mine)
        /\ \A u \in done : u[1] \in DOMAIN fd.substance_progress
        /\ (pc \in {"row", "dead"} /\ MidPage /\ ci <= Len(listing_urls))
             => PageId(substance_id, page_num) \notin done

C8_Witness ==
    /\ pc = "dead"
    /\ substance_id = 2
    /\ page_num = 2
    /\ ri = 2
    /\ Len(experiences) = 2
    /\ progress_file.state = "json"
    /\ Contains(progress_data.completed_experiences, 3)
    /\ ~Contains(progress_file.data.completed_experiences, 3)

LinkedRows(rs) == SelectSeq(rs, LAMBDA r : r.link)

Titles(s) == [i \in 1..Len(s) |-> s[i].title]

\* The record of every row whose detail read failed holds the row's summary
\* keys and sid only.
FallbackIsSummaryOnly ==
    \A i \in 1..Len(page_experiences) :
        LET row == LinkedRows(rows)[i] IN
        <<"detail", substance_id, page_num, row.href, "failed">> \in requests
            => Keys(page_experiences[i])
                 = row.cells \cup {"title", "sid"}

\* C9 (as claimed): the records of a page are, in order, those of the
\* listing rows with a link, one for each of them once the row loop is over.
C9_OneRecordPerLinkedRow ==
    pc = "row" =>
        /\ Titles(page_experiences) = Titles(Prefix(LinkedRows(rows), ri - 1))
        /\ ~MidPage => Titles(page_experiences) = Titles(LinkedRows(rows))
        /\ FallbackIsSummaryOnly

\* C9 (amended): the records of a page are, in order, those of the listing
\* rows with a link, one for each of them once the row loop is over, or for
\* each of the first limit_per_page of them under a cap.
C9_OneRecordPerKeptLinkedRow ==
    pc = "row" =>
        /\ Titles(page_experiences) = Titles(Prefix(LinkedRows(rows), ri - 1))
        /\ ~MidPage =>
             Titles(page_experiences)
               = Titles(IF limit_per_page # 0
                        THEN Prefix(LinkedRows(rows), limit_per_page)
                        ELSE LinkedRows(rows))
        /\ FallbackIsSummaryOnly

C9_Witness ==
    /\ pc = "row"
    /\ ~MidPage
    /\ substance_id = 2
    /\ page_num = 1
    /\ Len(rows) = 2
    /\ Len(page_experiences) = 1
    /\ Len(all_experiences) = 4
    /\ all_experiences[3].detail = "none"

\* C10: the step in which save_progress logs a failure for a page leaves
\* main at the next page of the same listing with the page listed in
\* progress_data and counted, and leaves a file whose checkpoint does not
\* list the page.
C10_FailedSaveKeepsMemory ==
    [][save_log' = "error" =>
        /\ pc' = "page"
        /\ page_num' = page_num + 1
        /\ ci' = ci
        /\ ~is_page_completed(progress_data, substance_id, page_num)
        /\ is_page_completed(progress_data', substance_id, page_num)
        /\ progress_data'.total_scraped
             = progress_data.total_scraped + Len(page_experiences)
        /\ SubstanceEntry(progress_data', substance_id).completed_pages
             = SubstanceEntry(progress_data, substance_id).completed_pages + 1
        /\ ~is_page_completed(load_progress(progress_file'), substance_id,
                              page_num)
      ]_vars

C10_Witness ==
    /\ save_log = "error"
    /\ pc = "page"
    /\ page_num = 2
    /\ substance_id = 39
    /\ progress_data.total_scraped = 3
    /\ PageId(39, 1) \in CompletedPages(progress_data)
    /\ PageId(39, 1) \notin CompletedPages(load_progress(progress_file))

\* Row j of the dose chart has a substance cell.
HasSubstance(j) == "dosechart-substance" \in soup.dose_rows[j].cells

\* The position in the dose chart of its i-th row with a substance cell, 0
\* when the document has no dose chart or the chart has fewer such rows.
DataRowAt(i) ==
    LET at == {j \in 1..Len(soup.dose_rows) :
                 /\ HasSubstance(j)
                 /\ Cardinality({k \in 1..j : HasSubstance(k)}) = i}
    IN  IF soup.dosechart /\ at # {} THEN CHOOSE j \in at : TRUE ELSE 0

\* parse_detail returned a detail record (the page was fetched).
Returned == details.detail \in {"full", "early"}

\* Exactly the slots 1..10; slot i is all None when the chart has no i-th
\* row with a substance cell and else holds that row's substance.
TenSlotsInSourceOrder ==
    /\ DOMAIN details.doses = 1..10
    /\ \A i \in 1..10 :
         IF DataRowAt(i) = 0
         THEN details.doses[i] = NoneSlot
         ELSE details.doses[i].substance
                = get_text(soup.dose_rows[DataRowAt(i)],
                           "dosechart-substance")

\* C12 (as claimed): a detail record returned by parse_detail has exactly
\* 10 dose slots, filled in source order from the rows with a substance
\* cell, rows past the 10th ignored and missing rows None, and every slot
\* is None in its three fields or populated in its three fields.
C12_SlotsAllOrNothing ==
    Returned =>
        /\ TenSlotsInSourceOrder
        /\ \A i \in 1..10 :
             \/ details.doses[i] = NoneSlot
             \/ /\ details.doses[i].substance # None
                /\ details.doses[i].dose # None
                /\ details.doses[i].method # None

\* C12 (amended): a detail record returned by parse_detail has exactly 10
\* dose slots, filled in source order from the rows with a substance cell,
\* rows past the 10th ignored and missing rows None in the three fields;
\* the slot of a row holds its substance, its dose is the text of the
\* row's amount cell and None exactly when the row has no amount cell, and
\* its method is the text of the row's method cell and None exactly when
\* the row has no method cell.
C12_SlotsFollowCells ==
    Returned =>
        /\ TenSlotsInSourceOrder
        /\ \A i \in 1..10 :
             DataRowAt(i) # 0 =>
                LET row == soup.dose_rows[DataRowAt(i)]
                    slot == details.doses[i]
                IN  /\ slot.substance # None
                    /\ slot.dose = IF "dosechart-amount" \in row.cells
                                   THEN get_text(row, "dosechart-amount")
                                   ELSE None
                    /\ slot.method = IF "dosechart-method" \in row.cells
                                     THEN get_text(row, "dosechart-method")
                                     ELSE None
                    /\ get_text(row, "dosechart-amount") # None
                    /\ get_text(row, "dosechart-method") # None

C12_Witness ==
    /\ Returned
    /\ Len(soup.dose_rows) = 11
    /\ ~HasSubstance(1)
    /\ DataRowAt(10) = 11
    /\ details.doses[10].substance # None
    /\ details.doses[10].dose = None
    /\ details.doses[10].method # None
    /\ details.doses[9].dose # None

RECURSIVE SumOfEntries(_, _)
\* The sum of one counter over the entries of substance_progress.
SumOfEntries(progress, counter) ==
    IF DOMAIN progress = {} THEN 0
    ELSE LET sid == CHOOSE x \in DOMAIN progress : TRUE
         IN  progress[sid][counter]
             + SumOfEntries([x \in DOMAIN progress \ {sid} |-> progress[x]],
                            counter)

ColumnAt(name) ==
    CHOOSE j \in 1..Len(output_file.header) : output_file.header[j] = name

\* C11: every line of the output table a run has written has the 43
\* columns, the 13 scalar ones and then substance_i, dose_i, method_i for
\* i = 1..10, in that order; whatever keys a record has (all of them, the
\* summary keys and sid only, or those up to where parse_detail stopped),
\* the cell of every column the record lacks is the one absent marker, and
\* the cell of a key it has with a value is that value.
C11_Rectangular ==
    pc = "done" =>
        /\ output_file.state = "written"
        /\ Len(output_file.header) = 43
        /\ SubSeq(output_file.header, 1, 13) = ScalarColumns
        /\ \A i \in 1..10 :
             /\ output_file.header[11 + 3 * i] = "substance_" \o str(i)
             /\ output_file.header[12 + 3 * i] = "dose_" \o str(i)
             /\ output_file.header[13 + 3 * i] = "method_" \o str(i)
        /\ Len(output_file.table) = Len(output_file.rows)
        /\ \A r \in 1..Len(output_file.table) :
             /\ Len(output_file.table[r]) = 43
             /\ \A j \in 1..43 :
                  LET rec == output_file.rows[r]
                      key == output_file.header[j]
                  IN  IF HasKey(rec, key) /\ Value(rec, key) # None
                      THEN output_file.table[r][j] = Value(rec, key)
                      ELSE output_file.table[r][j] = na_rep

C11_Witness ==
    /\ pc = "done"
    /\ \E i, j, k \in 1..Len(output_file.rows) :
         /\ output_file.rows[i].detail = "full"
         /\ output_file.rows[j].detail = "early"
         /\ output_file.rows[k].detail = "none"
         /\ "author" \notin Keys(output_file.rows[i])
         /\ output_file.table[i][ColumnAt("author")] = na_rep
         /\ output_file.table[i][ColumnAt("substance_1")] # na_rep
         /\ output_file.table[j][ColumnAt("dose_1")] = na_rep
         /\ output_file.table[k][ColumnAt("substance_1")] = na_rep

\* The pages of the site in the order main walks them.
RECURSIVE CrawlOrder(_)
CrawlOrder(c) ==
    IF c > Len(listing_urls) THEN <<>>
    ELSE [n \in 1..Len(Site[listing_urls[c]]) |-> PageId(listing_urls[c], n)]
         \o CrawlOrder(c + 1)

\* The listing entries of a page that a run with this cap resolves.
KeptOf(u) ==
    LET found == parse_listing(ListingRows(u[1], u[2]), TRUE)
    IN  IF limit_per_page # 0 THEN Prefix(found, limit_per_page) ELSE found

\* Category and title of the records of the pages whose detail pages this
\* run read, page after page.
RECURSIVE ResolvedInRun(_)
ResolvedInRun(pages) ==
    IF pages = <<>> THEN <<>>
    ELSE (IF DetailRequested(Head(pages))
          THEN [i \in 1..Len(KeptOf(Head(pages))) |->
                  <<str(Head(pages)[1]), KeptOf(Head(pages))[i].title>>]
          ELSE <<>>)
         \o ResolvedInRun(Tail(pages))

\* C14: when a run has ended, the output file holds one line for each
\* record the run resolved and no other line, in crawl order; no line
\* comes from a page the checkpoint listed when the run began.
C14_OutputIsThisRun ==
    pc = "done" =>
        /\ output_file.state = "written"
        /\ [r \in 1..Len(output_file.table) |->
              <<output_file.table[r][ColumnAt("sid")],
                output_file.table[r][ColumnAt("title")]>>]
             = ResolvedInRun(CrawlOrder(1))
        /\ Len(output_file.table) = Cardinality(DetailRequests)
        /\ \A u \in start_completed : ~DetailRequested(u)

C14_Witness ==
    /\ pc = "done"
    /\ PageId(39, 1) \in start_completed
    /\ Len(output_file.table) > 0
    /\ Len(output_file.table) < progress_data.total_scraped
    /\ \A r \in 1..Len(output_file.table) :
         output_file.table[r][ColumnAt("sid")] # "39"

====
